---------------------------- MODULE Spec2Model ----------------------------
(***************************************************************************)
(* A model of carsim: the per-tick car integrator (car_simulation.py), the *)
(* track lookup it consults (track.py), the curve interpolation utility    *)
(* (util.py), the tire grip model (tire/grip.py) and the axle reaction     *)
(* force (tire/force.py).                                                  *)
(*                                                                         *)
(* Numbers.  The program computes in IEEE doubles.  A finite double is     *)
(* modelled as a fixed-point integer with three decimal digits (1.0 is     *)
(* 1000); angles are milliradians.  The non-finite doubles the program can *)
(* produce (numpy's x/0 and 0/0) are kept as values of their own: a float  *)
(* is a record [k |-> "fin" | "inf" | "nan", v |-> Int], v being the       *)
(* fixed-point value of a finite float and the sign of an infinite one.    *)
(* The sign of a zero is not modelled.                                     *)
(***************************************************************************)
EXTENDS Integers, Sequences, FiniteSets, TLC

VARIABLES
    mass, tire_grip, wheel_base, max_steering_angle,  \* Car.__init__ parameters
    position, velocity, heading, steering_angle, speed, \* Car's mutable fields
    track,      \* the TrackSpline handed to detect_boundaries
    last,       \* the last Car call: its name, inputs, outcome and the fields before it
    ncalls,     \* number of Car calls made so far
    nzero,      \* number of those that were apply_controls(0, 0, 0)
    gin, gout,  \* get_tire_grip: the ten inputs of the tire, and the last two results
    iq, iout,   \* interpolate_curve: the curve and query, and the result
    fin_, fout  \* get_reaction_force_on_axle: the inputs, and the result

vars == <<mass, tire_grip, wheel_base, max_steering_angle, position, velocity,
          heading, steering_angle, speed, track, last, ncalls, nzero,
          gin, gout, iq, iout, fin_, fout>>

carVars == <<mass, tire_grip, wheel_base, max_steering_angle, position, velocity,
             heading, steering_angle, speed, track, last, ncalls, nzero>>

pureVars == <<gin, gout, iq, iout, fin_, fout>>

-----------------------------------------------------------------------------
(* Bounds *)

\* Car calls per run
MaxCalls == 3

-----------------------------------------------------------------------------
(* Fixed-point arithmetic on finite values *)

Scale == 10^3

Abs(x) == IF x < 0 THEN -x ELSE x

Sign(x) == IF x > 0 THEN 1 ELSE IF x < 0 THEN -1 ELSE 0

Min(a, b) == IF a <= b THEN a ELSE b

Max(a, b) == IF a >= b THEN a ELSE b

\* a / b (b # 0), the quotient cut towards zero
Quot(a, b) == Sign(a) * Sign(b) * (Abs(a) \div Abs(b))

\* the product of two fixed-point values
Mul(a, b) == Quot(a * b, Scale)

\* the quotient of two fixed-point values (b # 0)
Div(a, b) == Quot(a * Scale, b)

RECURSIVE SqrtSearch(_, _, _)
SqrtSearch(n, lo, hi) ==
    IF lo >= hi THEN lo
    ELSE LET mid == (lo + hi + 1) \div 2
         IN IF mid * mid <= n THEN SqrtSearch(n, mid, hi)
                              ELSE SqrtSearch(n, lo, mid - 1)

\* the largest r with r*r <= n  (0 <= n < 2^31)
ISqrt(n) == SqrtSearch(n, 0, 46340)

\* np.sqrt of a fixed-point value x >= 0
Sqrt(x) == ISqrt(x * Scale)

-----------------------------------------------------------------------------
(* IEEE values: finite, infinite, not-a-number *)

Fin(v) == [k |-> "fin", v |-> v]

Inf(s) == [k |-> "inf", v |-> s]

NaN == [k |-> "nan", v |-> 0]

IsFin(a) == a.k = "fin"

IsNaN(a) == a.k = "nan"

\* numpy's a / b: a division by zero is no error, it yields inf or nan
FDiv(a, b) ==
    IF IsNaN(a) \/ IsNaN(b) THEN NaN
    ELSE IF a.k = "inf" THEN (IF b.k = "inf" THEN NaN
                              ELSE Inf(a.v * (IF b.v < 0 THEN -1 ELSE 1)))
    ELSE IF b.k = "inf" THEN Fin(0)
    ELSE IF b.v = 0 THEN (IF a.v = 0 THEN NaN ELSE Inf(Sign(a.v)))
    ELSE Fin(Div(a.v, b.v))

FMul(a, b) ==
    IF IsNaN(a) \/ IsNaN(b) THEN NaN
    ELSE IF IsFin(a) /\ IsFin(b) THEN Fin(Mul(a.v, b.v))
    ELSE IF Sign(a.v) * Sign(b.v) = 0 THEN NaN
    ELSE Inf(Sign(a.v) * Sign(b.v))

FAdd(a, b) ==
    IF IsNaN(a) \/ IsNaN(b) THEN NaN
    ELSE IF IsFin(a) /\ IsFin(b) THEN Fin(a.v + b.v)
    ELSE IF IsFin(a) THEN b
    ELSE IF IsFin(b) THEN a
    ELSE IF a.v = b.v THEN a ELSE NaN

FNeg(a) == IF IsNaN(a) THEN a ELSE [a EXCEPT !.v = -a.v]

FSub(a, b) == FAdd(a, FNeg(b))

FAbs(a) == IF IsNaN(a) THEN a ELSE [a EXCEPT !.v = Abs(a.v)]

\* a > b; every comparison with nan is false
FGt(a, b) ==
    /\ ~IsNaN(a) /\ ~IsNaN(b)
    /\ IF IsFin(a) /\ IsFin(b) THEN a.v > b.v
       ELSE IF IsFin(a) THEN b.v < 0
       ELSE IF IsFin(b) THEN a.v > 0
       ELSE a.v > b.v

-----------------------------------------------------------------------------
(* Trigonometry on milliradians *)

\* pi as 355/113
Pi == (355 * Scale) \div 113

HalfPi == Pi \div 2

TwoPi == 2 * Pi

\* sin x for 0 <= x <= pi/2: x (1 - x^2/6 (1 - x^2/20 (1 - x^2/42)))
SinQ(x) ==
    LET x2 == Mul(x, x)
        a  == Scale - x2 \div 42
        b  == Scale - Mul(x2, a) \div 20
        c  == Scale - Mul(x2, b) \div 6
    IN Min(Scale, Mul(x, c))   \* a sine is never above 1

\* np.sin of a finite angle
SinFix(x) ==
    LET r == x % TwoPi
    IN IF r <= HalfPi THEN SinQ(r)
       ELSE IF r <= Pi THEN SinQ(Pi - r)
       ELSE IF r <= Pi + HalfPi THEN -SinQ(r - Pi)
       ELSE -SinQ(TwoPi - r)

CosFix(x) == SinFix(x + HalfPi)

\* np.sin, np.cos, np.tan of a float: nan for a nan or an infinite angle
FSin(a) == IF IsFin(a) THEN Fin(SinFix(a.v)) ELSE NaN

FCos(a) == IF IsFin(a) THEN Fin(CosFix(a.v)) ELSE NaN

FTan(a) == IF IsFin(a) THEN FDiv(Fin(SinFix(a.v)), Fin(CosFix(a.v))) ELSE NaN

\* arctan z for 0 <= z <= 1: z pi/4 + z (1 - z) (0.2447 + 0.0663 z)
Atan01(z) == Mul(785, z) + Mul(Mul(z, Scale - z), 245 + Mul(66, z))

\* np.arctan2(y, x) of finite values, in (-pi, pi]
Atan2Fix(y, x) ==
    LET ax == Abs(x)
        ay == Abs(y)
        t  == IF ax = 0 /\ ay = 0 THEN 0
              ELSE IF ax >= ay THEN Atan01(Div(ay, ax))
              ELSE HalfPi - Atan01(Div(ax, ay))
        u  == IF x >= 0 THEN t ELSE Pi - t
    IN IF y < 0 THEN -u ELSE u

FAtan2(y, x) ==
    IF IsNaN(y) \/ IsNaN(x) THEN NaN
    ELSE IF IsFin(y) /\ IsFin(x) THEN Fin(Atan2Fix(y.v, x.v))
    ELSE IF IsFin(y) THEN Fin(IF x.v > 0 THEN 0 ELSE IF y.v < 0 THEN -Pi ELSE Pi)
    ELSE IF IsFin(x) THEN Fin(y.v * HalfPi)
    ELSE Fin(y.v * (IF x.v > 0 THEN 785 ELSE 2356))

-----------------------------------------------------------------------------
(* track.py: TrackSpline *)

\* |<<dx, dy>>|^2, for comparing two np.linalg.norm values
NormSq(dx, dy) == dx * dx + dy * dy

\* np.linalg.norm(<<dx, dy>>) > w, for finite dx, dy, w
NormGt(dx, dy, w) == w < 0 \/ NormSq(dx, dy) > w * w

\* get_closest_point's loop over the sampled points pts[i..], (best, min_dist)
\* being the closest point so far and its squared distance; best = 0 is None
\* and min_dist = -1 is float("inf").  A distance that is nan or inf (a
\* position that is not finite) is never below min_dist.
RECURSIVE ClosestFrom(_, _, _, _, _)
ClosestFrom(pts, pos, i, best, min_dist) ==
    IF i > Len(pts) THEN best
    ELSE IF ~(IsFin(pos[1]) /\ IsFin(pos[2]))
         THEN ClosestFrom(pts, pos, i + 1, best, min_dist)
    ELSE LET dist == NormSq(pos[1].v - pts[i][1], pos[2].v - pts[i][2])
         IN IF min_dist = -1 \/ dist < min_dist
            THEN ClosestFrom(pts, pos, i + 1, i, dist)
            ELSE ClosestFrom(pts, pos, i + 1, best, min_dist)

\* TrackSpline.get_closest_point: the index of the closest sampled point, 0 for None
get_closest_point(trk, pos) == ClosestFrom(trk.samples, pos, 1, 0, -1)

-----------------------------------------------------------------------------
(* car_simulation.py: Car *)

\* the mutable fields of the car
CarState ==
    [steering_angle |-> steering_angle, speed |-> speed, velocity |-> velocity,
     position |-> position, heading |-> heading]

Call(op, throttle, brake, steering_input, ret) ==
    [op |-> op, throttle |-> throttle, brake |-> brake,
     steering_input |-> steering_input, ret |-> ret, pre |-> CarState]

\* force = throttle * 500 - brake * 300
Force(throttle, brake) == throttle * 500 - brake * 300

\* Car._apply_steering: the heading after it, for the given speed and steering angle
ApplySteeringHeading(spd, angle) ==
    LET turning_radius   == FDiv(Fin(wheel_base), FTan(Fin(angle)))
        angular_velocity == FDiv(Fin(spd), turning_radius)
    IN FAdd(heading, angular_velocity)

\* Car.apply_controls.  Python's force / self.mass raises ZeroDivisionError for
\* mass = 0, after steering_angle has been assigned.
apply_controls(throttle, brake, steering_input) ==
    /\ ncalls < MaxCalls
    /\ ncalls' = ncalls + 1
    /\ nzero' = IF throttle = 0 /\ brake = 0 /\ steering_input = 0
                THEN nzero + 1 ELSE nzero
    /\ steering_angle' = Mul(steering_input, max_steering_angle)
    /\ IF mass = 0
       THEN /\ last' = Call("apply_controls", throttle, brake, steering_input,
                            "ZeroDivisionError")
            /\ UNCHANGED <<speed, velocity, position, heading>>
       ELSE LET acceleration == Div(Force(throttle, brake), mass)
                spd == speed + acceleration
                vel == <<FMul(Fin(spd), FCos(heading)), FMul(Fin(spd), FSin(heading))>>
            IN /\ speed' = spd
               /\ velocity' = vel
               /\ position' = <<FAdd(position[1], vel[1]), FAdd(position[2], vel[2])>>
               /\ heading' = ApplySteeringHeading(spd, steering_angle')
               /\ last' = Call("apply_controls", throttle, brake, steering_input, "ok")
    /\ UNCHANGED <<mass, tire_grip, wheel_base, max_steering_angle, track>>
    /\ UNCHANGED pureVars

\* Car.get_lateral_force
get_lateral_force ==
    LET slip_angle == FSub(FAtan2(velocity[2], velocity[1]), heading)
    IN FMul(Fin(tire_grip), FSin(slip_angle))

\* a guard that also fires at equality
DriftGuardAtEqual(lateral_force) ==
    FGt(FAbs(lateral_force), Fin(tire_grip)) \/ FAbs(lateral_force) = Fin(tire_grip)

\* the guard of update_drift
DriftGuard(lateral_force) == FGt(FAbs(lateral_force), Fin(tire_grip))

\* Car.update_drift
update_drift ==
    /\ ncalls < MaxCalls
    /\ ncalls' = ncalls + 1
    /\ LET lateral_force == get_lateral_force
       IN IF DriftGuard(lateral_force)
          THEN LET drift_factor == FDiv(lateral_force, Fin(tire_grip))
                   k == FSub(Fin(Scale), drift_factor)
               IN velocity' = <<FMul(velocity[1], k), FMul(velocity[2], k)>>
          ELSE UNCHANGED velocity
    /\ last' = Call("update_drift", 0, 0, 0, "ok")
    /\ UNCHANGED <<mass, tire_grip, wheel_base, max_steering_angle, track,
                   position, heading, steering_angle, speed, nzero>>
    /\ UNCHANGED pureVars

\* a test that also counts the edge as off the track
OffTrackAtEdge(dx, dy, w) == w <= 0 \/ NormSq(dx, dy) >= w * w

\* the test of detect_boundaries: distance_to_track > track_spline.track_width
OffTrack(dx, dy, w) == NormGt(dx, dy, w)

\* detect_boundaries as it would be if an off-track car's velocity vector were
\* stopped together with its speed
detect_boundaries_stopping_velocity ==
    /\ ncalls < MaxCalls
    /\ ncalls' = ncalls + 1
    /\ LET c == get_closest_point(track, position)
       IN IF c = 0
          THEN /\ last' = Call("detect_boundaries", 0, 0, 0, "TypeError")
               /\ UNCHANGED <<speed, velocity>>
          ELSE LET p == track.samples[c]
               IN IF OffTrack(position[1].v - p[1], position[2].v - p[2],
                              track.track_width)
                  THEN /\ speed' = 0
                       /\ velocity' = <<Fin(0), Fin(0)>>
                       /\ last' = Call("detect_boundaries", 0, 0, 0, "True")
                  ELSE /\ UNCHANGED <<speed, velocity>>
                       /\ last' = Call("detect_boundaries", 0, 0, 0, "False")
    /\ UNCHANGED <<mass, tire_grip, wheel_base, max_steering_angle, track,
                   position, heading, steering_angle, nzero>>
    /\ UNCHANGED pureVars

\* Car.detect_boundaries.  For a position that is not finite get_closest_point
\* returns None and self.position - None raises TypeError.
detect_boundaries ==
    /\ ncalls < MaxCalls
    /\ ncalls' = ncalls + 1
    /\ LET c == get_closest_point(track, position)
       IN IF c = 0
          THEN /\ last' = Call("detect_boundaries", 0, 0, 0, "TypeError")
               /\ UNCHANGED speed
          ELSE LET p == track.samples[c]
               IN IF OffTrack(position[1].v - p[1], position[2].v - p[2],
                              track.track_width)
                  THEN /\ speed' = 0
                       /\ last' = Call("detect_boundaries", 0, 0, 0, "True")
                  ELSE /\ UNCHANGED speed
                       /\ last' = Call("detect_boundaries", 0, 0, 0, "False")
    /\ UNCHANGED <<mass, tire_grip, wheel_base, max_steering_angle, track,
                   position, velocity, heading, steering_angle, nzero>>
    /\ UNCHANGED pureVars


-----------------------------------------------------------------------------
(* util.py *)

\* np.interp(x, xp, fp) past the first control point: the segment j with
\* xp[j] <= x < xp[j+1] is interpolated linearly
RECURSIVE InterpFrom(_, _, _)
InterpFrom(x, points, j) ==
    IF j >= Len(points) THEN points[Len(points)][2]
    ELSE IF x < points[j + 1][1]
         THEN points[j][2]
              + Quot((points[j + 1][2] - points[j][2]) * (x - points[j][1]),
                     points[j + 1][1] - points[j][1])
    ELSE InterpFrom(x, points, j + 1)

\* interpolate_curve: np.interp returns fp[0] for x below xp[0] and fp[-1] for
\* x above xp[-1]
interpolate_curve(x, points) ==
    IF x <= points[1][1] THEN points[1][2]
    ELSE IF x >= points[Len(points)][1] THEN points[Len(points)][2]
    ELSE InterpFrom(x, points, 1)

\* weighted_sum: np.sum(values * weights) / np.sum(weights)
RECURSIVE SumSeq(_)
SumSeq(q) == IF q = <<>> THEN 0 ELSE Head(q) + SumSeq(Tail(q))

weighted_sum(values, weights) ==
    Div(SumSeq([i \in DOMAIN values |-> Mul(values[i], weights[i])]), SumSeq(weights))


-----------------------------------------------------------------------------
(* tire/grip.py *)

OPTIMAL_CAMBER_FOR_REFERENCE_TIRE == -3500

REFERENCE_TIRE_WIDTH == 305000

REFERENCE_OPTIMAL_PRESSURE == 28000

REFERENCE_HARDNESS_TO_TEMP_LOW_CURVE ==
    << <<0, 45000>>, <<400, 55000>>, <<500, 75000>>, <<600, 80000>>,
       <<700, 80000>>, <<800, 85000>>, <<900, 85000>>, <<1000, 85000>> >>

REFERENCE_HARDNESS_TO_TEMP_HIGH_CURVE ==
    << <<0, 65000>>, <<400, 75000>>, <<500, 105000>>, <<600, 105000>>,
       <<700, 110000>>, <<800, 115000>>, <<900, 120000>>, <<1000, 120000>> >>

REFERENCE_TIRE_WEAR_TO_GRIP_CURVE ==
    << <<0, 1000>>, <<100, 950>>, <<200, 900>>, <<300, 820>>, <<400, 750>>,
       <<500, 600>>, <<600, 500>>, <<700, 200>>, <<800, 80>>, <<900, 30>>,
       <<1000, 0>> >>

FRICTION_ASPHALT == 1000

FRICTION_CONCRETE == 1100

FRICTION_DIRT == 700

FRICTION_GRAVEL == 600

FRICTION_GRASS == 500

FRICTION_ICE == 100

SURFACE_FRICTION_EFFECT == 500

TIRE_HARDNESS_EFFECT == 1000

TIRE_PRESSURE_EFFECT == 300

TIRE_WIDTH_EFFECT == 200

CAMBER_EFFECT == 200

TEMPERATURE_EFFECT == 500

TIRE_WEAR_EFFECT == 1000

\* np.power(x, e) for x >= 0 and 0 < e < 1, e given by its binary digits
\* (bits[i] = 1 adds 1/2^i to e): the product of the repeated square roots
RECURSIVE PowBits(_, _, _)
PowBits(root, bits, i) ==
    IF i > Len(bits) THEN Scale
    ELSE LET r == Sqrt(root)
         IN Mul(IF bits[i] = 1 THEN r ELSE Scale, PowBits(r, bits, i + 1))

\* np.power(x, 0.3): 0.3 = 1/4 + 1/32 + 1/64 + 1/512 + 1/1024 + ...
Pow03(x) == PowBits(x, <<0, 1, 0, 0, 1, 1, 0, 0, 1, 1>>, 1)

\* np.power(x, 0.7): 0.7 = 1/2 + 1/8 + 1/16 + 1/128 + 1/256 + ...
Pow07(x) == PowBits(x, <<1, 0, 1, 1, 0, 0, 1, 1, 0, 0>>, 1)

\* np.power(x, 3)
Cube(x) == Mul(x, Mul(x, x))

\* np.clip(x, lo, hi)
Clip(x, lo, hi) == Min(Max(x, lo), hi)

\* a numpy boolean used as a factor
Mask(b) == IF b THEN 1 ELSE 0

RECURSIVE ExpNegInt(_)
ExpNegInt(n) == IF n = 0 THEN Scale ELSE Mul(368, ExpNegInt(n - 1))

\* np.exp(-z) for z >= 0: e^-n for the whole part, the series for the rest
ExpNeg(z) ==
    LET f  == z % Scale
        t6 == Scale - f \div 6
        t5 == Scale - Mul(f, t6) \div 5
        t4 == Scale - Mul(f, t5) \div 4
        t3 == Scale - Mul(f, t4) \div 3
        t2 == Scale - Mul(f, t3) \div 2
        t1 == Scale - Mul(f, t2)
    IN Mul(ExpNegInt(z \div Scale), t1)

\* the road types material_friction has a mask for
RoadTypes == {"asphalt", "concrete", "dirt", "gravel", "grass", "ice"}

\* material_friction.  road_friction starts as zeros and is assigned under
\* each road type's mask; a road type with no mask leaves it, and every term
\* of tread_effect, zero.
material_friction(tire_material_coefficient, tread_amount, road_type, road_condition) ==
    LET asphalt_mask  == road_type = "asphalt"
        concrete_mask == road_type = "concrete"
        dirt_mask     == road_type = "dirt"
        gravel_mask   == road_type = "gravel"
        grass_mask    == road_type = "grass"
        ice_mask      == road_type = "ice"
        road_friction0 ==
            IF ice_mask THEN FRICTION_ICE
            ELSE IF grass_mask THEN FRICTION_GRASS
            ELSE IF gravel_mask THEN FRICTION_GRAVEL
            ELSE IF dirt_mask THEN FRICTION_DIRT
            ELSE IF concrete_mask THEN FRICTION_CONCRETE
            ELSE IF asphalt_mask THEN FRICTION_ASPHALT
            ELSE 0
        road_friction == Mul(road_friction0, Pow03(road_condition))
        x == road_condition - 500
        asphalt_concrete_tread_effect ==
            Scale - Sign(x) * Mul(Sqrt(tread_amount), Sqrt(Abs(x)))
        dirt_gravel_grass_tread_effect == Scale + Mul(500, tread_amount)
        ice_tread_effect == Scale
        tread_effect ==
            Mask(asphalt_mask \/ concrete_mask) * asphalt_concrete_tread_effect
            + Mask(dirt_mask \/ gravel_mask \/ grass_mask) * dirt_gravel_grass_tread_effect
            + Mask(ice_mask) * ice_tread_effect
    IN Mul(Mul(tire_material_coefficient, road_friction), tread_effect)

tire_hardness_effect(tire_hardness_factor) == Sqrt(Scale - tire_hardness_factor)

tire_pressure_effect(tire_pressure) ==
    Pow07(Div(REFERENCE_OPTIMAL_PRESSURE, tire_pressure))

tire_width_effect(tire_width) ==
    Scale + Div(tire_width - REFERENCE_TIRE_WIDTH, 2 * REFERENCE_TIRE_WIDTH)

camber_effect(camber, tire_width) ==
    LET optimal_camber_adjustment ==
            Div(Mul(50, tire_width - REFERENCE_TIRE_WIDTH), REFERENCE_TIRE_WIDTH)
        optimal_camber == OPTIMAL_CAMBER_FOR_REFERENCE_TIRE + optimal_camber_adjustment
    IN ExpNeg(Div(Abs(camber - optimal_camber), 5 * Scale))

temperature_effect(tire_temperature, tire_hardness_factor) ==
    LET low_optimal  == interpolate_curve(tire_hardness_factor,
                                          REFERENCE_HARDNESS_TO_TEMP_LOW_CURVE)
        high_optimal == interpolate_curve(tire_hardness_factor,
                                          REFERENCE_HARDNESS_TO_TEMP_HIGH_CURVE)
        cold_temp_mask       == tire_temperature < low_optimal
        optimal_temp_mask    == tire_temperature >= low_optimal
                                /\ tire_temperature <= high_optimal
        overheated_temp_mask == tire_temperature > high_optimal
        cold_temp_grip       == Cube(Div(tire_temperature, low_optimal))
        overheating_factor   == Div(tire_temperature - high_optimal,
                                    high_optimal - low_optimal)
        overheated_temp_grip == Cube(Clip(Scale - overheating_factor, 0, Scale))
    IN Mask(cold_temp_mask) * cold_temp_grip
       + Mask(optimal_temp_mask) * Scale
       + Mask(overheated_temp_mask) * overheated_temp_grip

\* a wear factor read in the health convention (1 = new)
tire_wear_effect_as_health(tire_wear) ==
    interpolate_curve(Scale - Clip(tire_wear, 0, Scale), REFERENCE_TIRE_WEAR_TO_GRIP_CURVE)

tire_wear_effect(tire_wear) ==
    interpolate_curve(Clip(tire_wear, 0, Scale), REFERENCE_TIRE_WEAR_TO_GRIP_CURVE)

\* get_tire_grip on one tire (an element of a batched call is computed the
\* same way: every step is elementwise).  No step checks an input or raises.
get_tire_grip(t) ==
    LET base_friction      == material_friction(t.tire_material_coeff, t.tread_amount,
                                                t.road_type, t.road_condition)
        hardness_factor    == tire_hardness_effect(t.tire_hardness_factor)
        pressure_factor    == tire_pressure_effect(t.tire_pressure)
        width_factor       == tire_width_effect(t.tire_width)
        camber_factor      == camber_effect(t.camber, t.tire_width)
        temperature_factor == temperature_effect(t.tire_temperature, t.tire_hardness_factor)
        tire_wear_factor   == tire_wear_effect(t.tire_wear)
        grip_adjustment    ==
            weighted_sum(<<hardness_factor, pressure_factor, width_factor,
                           camber_factor, temperature_factor, tire_wear_factor>>,
                         <<TIRE_HARDNESS_EFFECT, TIRE_PRESSURE_EFFECT, TIRE_WIDTH_EFFECT,
                           CAMBER_EFFECT, TEMPERATURE_EFFECT, TIRE_WEAR_EFFECT>>)
    IN [status |-> "returned", grip |-> Mul(base_friction, grip_adjustment)]


-----------------------------------------------------------------------------
(* tire/force.py *)

WHEELSPIN_FACTOR == 10

WHEELSPIN_TORQUE_SENSITIVITY == 2

LATERAL_FRICTION_MULTIPLIER == 2000

TIRE_DEFORMATION_FACTOR == 100

\* vectors of three fixed-point components
VScale(v, k) == <<Mul(v[1], k), Mul(v[2], k), Mul(v[3], k)>>

VAdd(u, v) == <<u[1] + v[1], u[2] + v[2], u[3] + v[3]>>

VNeg(v) == <<-v[1], -v[2], -v[3]>>

\* np.dot
Dot(u, v) == Mul(u[1], v[1]) + Mul(u[2], v[2]) + Mul(u[3], v[3])

\* np.cross
Cross(u, v) ==
    <<Mul(u[2], v[3]) - Mul(u[3], v[2]),
      Mul(u[3], v[1]) - Mul(u[1], v[3]),
      Mul(u[1], v[2]) - Mul(u[2], v[1])>>

\* np.linalg.norm
Norm(v) == ISqrt(v[1] * v[1] + v[2] * v[2] + v[3] * v[3])

\* d ** n for a whole n >= 0
RECURSIVE PowInt(_, _)
PowInt(d, n) == IF n = 0 THEN Scale ELSE Mul(d, PowInt(d, n - 1))

\* 1 - TIRE_DEFORMATION_FACTOR * tire_radius / tire_stiffness
DeformationAbsorption(a) ==
    Scale - Div(Mul(TIRE_DEFORMATION_FACTOR, a.tire_radius), a.tire_stiffness)

\* total_force: the engine force, against the forward direction, plus the
\* lateral inertial force divided by the friction multiplier
TotalForce(a) ==
    LET deformation_absorption == DeformationAbsorption(a)
        engine_force == VScale(VScale(VNeg(a.tire_forward_direction),
                                      Div(a.engine_torque, a.tire_radius)),
                               deformation_absorption)
        tire_right_direction == Cross(a.tire_forward_direction, a.tire_up_direction)
        lateral_inertial_force ==
            VScale(VScale(tire_right_direction, Dot(a.inertial_force, tire_right_direction)),
                   deformation_absorption)
        normalized_lateral_inertial_force ==
            <<Div(lateral_inertial_force[1], LATERAL_FRICTION_MULTIPLIER),
              Div(lateral_inertial_force[2], LATERAL_FRICTION_MULTIPLIER),
              Div(lateral_inertial_force[3], LATERAL_FRICTION_MULTIPLIER)>>
    IN [engine_force |-> engine_force,
        total_force |-> VAdd(engine_force, normalized_lateral_inertial_force)]

\* the torque left in the slipping case
ReactionTorque(engine_torque, d) ==
    Mul(engine_torque,
        Scale - Mul(WHEELSPIN_FACTOR, PowInt(d, WHEELSPIN_TORQUE_SENSITIVITY)))

\* get_reaction_force_on_axle
get_reaction_force_on_axle(a) ==
    LET deformation_absorption == DeformationAbsorption(a)
        f == TotalForce(a)
        total_force_magnitude == Norm(f.total_force)
        max_traction_force_magnitude == Abs(a.max_traction_force)
    IN IF total_force_magnitude <= max_traction_force_magnitude
       THEN [slip |-> FALSE, d |-> 0,
             reaction_force |->
                 VScale(VScale(a.tire_forward_direction, Norm(f.engine_force)),
                        deformation_absorption)]
       ELSE LET d == total_force_magnitude - max_traction_force_magnitude
                reaction_torque == ReactionTorque(a.engine_torque, d)
            IN [slip |-> TRUE, d |-> d,
                reaction_force |->
                    VScale(VScale(a.tire_forward_direction,
                                  Div(reaction_torque, a.tire_radius)),
                           deformation_absorption)]


-----------------------------------------------------------------------------
(* The car: a Car is constructed and its three operations are called in any order *)

\* the inputs of the calls
Throttles == {0, Scale}

Brakes == {0, Scale}

SteeringInputs == {-Scale, 0, Scale}

\* the constructor's arguments
Masses == {0, 1000 * Scale}

TireGrips == {-Scale, 0, Scale}

WheelBases == {0, 2500}

MaxSteeringAngles == {500}

\* the points get_closest_point samples on the spline, and the track's width
Tracks ==
    [samples : {<< <<0, 2000>>, <<1000, 2000>>, <<2000, 2000>> >>},
     track_width : {1000, 2000}]

NoCall == [op |-> "init", throttle |-> 0, brake |-> 0, steering_input |-> 0,
           ret |-> "ok",
           pre |-> [steering_angle |-> 0, speed |-> 0,
                    velocity |-> <<Fin(0), Fin(0)>>,
                    position |-> <<Fin(0), Fin(0)>>, heading |-> Fin(0)]]

\* no call of get_tire_grip, interpolate_curve, get_reaction_force_on_axle yet
NoGrip == [done |-> FALSE, status |-> "none", grip |-> 0,
           has_prev |-> FALSE, prev_wear |-> 0, prev_grip |-> 0]

NoInterp == [done |-> FALSE, y |-> 0]

NoForce == [done |-> FALSE, slip |-> FALSE, d |-> 0, reaction_force |-> <<0, 0, 0>>]

\* the tire of the module's example usage
ExampleTire ==
    [tire_material_coeff |-> 1000, tread_amount |-> 0, road_type |-> "asphalt",
     road_condition |-> 800, tire_width |-> 305000, tire_hardness_factor |-> 500,
     tire_pressure |-> 30000, tire_temperature |-> 90000, tire_wear |-> 500,
     camber |-> -2500]

\* the tire, curve and axle variables while they are not used
IdleGrip == gin = ExampleTire /\ gout = NoGrip

IdleInterp == iq = [points |-> REFERENCE_TIRE_WEAR_TO_GRIP_CURVE, x |-> 0] /\ iout = NoInterp

IdleForce ==
    /\ fin_ = [engine_torque |-> 0, tire_radius |-> 1000, max_traction_force |-> 0,
               tire_stiffness |-> 10000, inertial_force |-> <<0, 0, 0>>,
               tire_forward_direction |-> <<1000, 0, 0>>,
               tire_up_direction |-> <<0, 0, 1000>>]
    /\ fout = NoForce

\* Car.__init__
CarInit ==
    /\ mass \in Masses
    /\ tire_grip \in TireGrips
    /\ wheel_base \in WheelBases
    /\ max_steering_angle \in MaxSteeringAngles
    /\ position = <<Fin(0), Fin(0)>>
    /\ velocity = <<Fin(0), Fin(0)>>
    /\ heading = Fin(0)
    /\ steering_angle = 0
    /\ speed = 0
    /\ track \in Tracks
    /\ last = NoCall
    /\ ncalls = 0
    /\ nzero = 0

Init == CarInit /\ IdleGrip /\ IdleInterp /\ IdleForce

Next ==
    \/ \E throttle \in Throttles, brake \in Brakes, steering_input \in SteeringInputs :
          apply_controls(throttle, brake, steering_input)
    \/ update_drift
    \/ detect_boundaries

Spec == Init /\ [][Next]_vars


-----------------------------------------------------------------------------
(* Claims about the car *)

Origin == <<Fin(0), Fin(0)>>

PositionFinite == IsFin(position[1]) /\ IsFin(position[2])

\* the squared distance from the car to the sampled point of the track nearest to it
MinDistSq ==
    LET d(i) == NormSq(position[1].v - track.samples[i][1],
                       position[2].v - track.samples[i][2])
    IN CHOOSE m \in {d(i) : i \in DOMAIN track.samples} :
          \A i \in DOMAIN track.samples : m <= d(i)

WidthSq == track.track_width * track.track_width

\* C1: detect_boundaries returns true and sets speed to 0 exactly when the
\* distance from the car to the track's closest point is strictly greater than
\* track_width; at a distance less than or equal to track_width (the distance
\* equal to track_width included) it returns false and leaves speed unchanged.
C1_DetectBoundariesThreshold ==
    (last.op = "detect_boundaries" /\ PositionFinite) =>
        IF track.track_width < 0 \/ MinDistSq > WidthSq
        THEN last.ret = "True" /\ speed = 0
        ELSE last.ret = "False" /\ speed = last.pre.speed

\* a moving car exactly track_width away from the track is reported on the track
C1_Witness ==
    /\ last.op = "detect_boundaries" /\ PositionFinite
    /\ MinDistSq = WidthSq
    /\ last.ret = "False"
    /\ speed # 0

\* C2: from a freshly constructed car with non-zero mass, after any number
\* N >= 1 of consecutive apply_controls(0, 0, 0) calls position, velocity and
\* heading equal their initial values.
C2_ZeroInputIdempotent ==
    (mass # 0 /\ ncalls >= 1 /\ nzero = ncalls) =>
        position = Origin /\ velocity = Origin /\ heading = Fin(0)

\* C3: a Car operation that fails leaves the car's fields (steering_angle,
\* speed, velocity, position, heading) as they were before the call.
C3_FailureIsAtomic ==
    last.ret \in {"ZeroDivisionError", "TypeError"} => CarState = last.pre

\* C8: apply_controls with steering_input = 0 on a car of finite speed and
\* heading leaves heading unchanged and finite.
C8_ZeroSteeringKeepsHeading ==
    (last.op = "apply_controls" /\ last.steering_input = 0 /\ IsFin(last.pre.heading)) =>
        heading = last.pre.heading /\ IsFin(heading)

\* C10: for a car whose tire_grip is >= 0 the guard |lateral_force| > tire_grip
\* is never true in a reachable state, and update_drift changes no field.
C10_DriftNeverFires ==
    tire_grip >= 0 =>
        /\ ~DriftGuard(get_lateral_force)
        /\ last.op = "update_drift" => CarState = last.pre

\* update_drift has run on a car that grips and slips sideways
C10_Witness ==
    /\ tire_grip > 0
    /\ last.op = "update_drift"
    /\ IsFin(get_lateral_force) /\ get_lateral_force.v # 0
    /\ velocity # Origin

\* C11: detect_boundaries changes at most the speed field: position, velocity,
\* heading and steering_angle are as they were before the call whether it
\* returns true or false; after an off-track result speed is 0 and the velocity
\* vector keeps its previous value, and the next successful apply_controls
\* recomputes velocity from its new speed and the heading it started with.
C11_DetectBoundariesFrame ==
    /\ (last.op = "detect_boundaries" /\ last.ret \in {"True", "False"}) =>
           /\ position = last.pre.position
           /\ velocity = last.pre.velocity
           /\ heading = last.pre.heading
           /\ steering_angle = last.pre.steering_angle
           /\ last.ret = "True" => speed = 0
           /\ last.ret = "False" => speed = last.pre.speed
    /\ (last.op = "apply_controls" /\ last.ret = "ok") =>
           velocity = <<FMul(Fin(speed), FCos(last.pre.heading)),
                        FMul(Fin(speed), FSin(last.pre.heading))>>

\* a moving car has been reported off the track: its speed is 0 and its velocity
\* vector is still the non-zero one it had
C11_Witness ==
    /\ last.op = "detect_boundaries" /\ last.ret = "True"
    /\ last.pre.speed # 0 /\ speed = 0
    /\ IsFin(velocity[1]) /\ IsFin(velocity[2])
    /\ velocity # <<Fin(0), Fin(0)>>


-----------------------------------------------------------------------------
(* The tire: get_tire_grip is called on a tire, and again as the tire wears *)

Wears == {-500, 0, 250, 650, 1000, 1500}

TireInputs ==
    [tire_material_coeff  : {1000},
     tread_amount         : {0, 1000},
     road_type            : RoadTypes \cup {"sand"},
     road_condition       : {200, 900},
     tire_width           : {205000, 305000},
     tire_hardness_factor : {0, 500, 1000},
     tire_pressure        : {36000},
     tire_temperature     : {-100000, 60000, 150000},
     tire_wear            : Wears,
     camber               : {-2500}]

\* a car that is not used
CarIdle ==
    /\ mass = 1000 * Scale /\ tire_grip = Scale /\ wheel_base = 2500
    /\ max_steering_angle = 500
    /\ position = <<Fin(0), Fin(0)>> /\ velocity = <<Fin(0), Fin(0)>>
    /\ heading = Fin(0) /\ steering_angle = 0 /\ speed = 0
    /\ track = [samples |-> << <<0, 0>> >>, track_width |-> 0]
    /\ last = NoCall /\ ncalls = 0 /\ nzero = 0

GripInit == gin \in TireInputs /\ gout = NoGrip

\* the caller calls get_tire_grip(...) on the tire
CallGetTireGrip ==
    /\ ~gout.done
    /\ LET r == get_tire_grip(gin)
       IN gout' = [gout EXCEPT !.done = TRUE, !.status = r.status, !.grip = r.grip]
    /\ UNCHANGED <<gin, iq, iout, fin_, fout>>
    /\ UNCHANGED carVars

\* the tire wears (or is replaced): the next call differs in tire_wear alone
WearChanges(w) ==
    /\ gout.done
    /\ w # gin.tire_wear
    /\ gin' = [gin EXCEPT !.tire_wear = w]
    /\ gout' = [NoGrip EXCEPT !.has_prev = TRUE, !.prev_wear = gin.tire_wear,
                              !.prev_grip = gout.grip]
    /\ UNCHANGED <<iq, iout, fin_, fout>>
    /\ UNCHANGED carVars

InitGrip == CarIdle /\ GripInit /\ IdleInterp /\ IdleForce

NextGrip ==
    \/ CallGetTireGrip
    \/ \E w \in Wears : WearChanges(w)

SpecGrip == InitGrip /\ [][NextGrip]_vars

-----------------------------------------------------------------------------
(* The curve: interpolate_curve is called on a curve and a query *)

Curves ==
    {REFERENCE_TIRE_WEAR_TO_GRIP_CURVE,
     REFERENCE_HARDNESS_TO_TEMP_LOW_CURVE,
     REFERENCE_HARDNESS_TO_TEMP_HIGH_CURVE,
     << <<0, 0>>, <<1000, 1000>> >>,
     << <<-200, 300>>, <<100, 300>>, <<400, -500>> >>}

Queries == {-500 + 50 * i : i \in 0..40}

InterpInit == iq \in [points : Curves, x : Queries] /\ iout = NoInterp

CallInterpolateCurve ==
    /\ ~iout.done
    /\ iout' = [done |-> TRUE, y |-> interpolate_curve(iq.x, iq.points)]
    /\ UNCHANGED <<iq, gin, gout, fin_, fout>>
    /\ UNCHANGED carVars

InitInterp == CarIdle /\ IdleGrip /\ InterpInit /\ IdleForce

NextInterp == CallInterpolateCurve

SpecInterp == InitInterp /\ [][NextInterp]_vars

-----------------------------------------------------------------------------
(* The axle: get_reaction_force_on_axle is called on a wheel *)

AxleInputs ==
    [engine_torque          : {5000, 10000, 20000},
     tire_radius            : {500, 1000},
     max_traction_force     : {2000, 15000, 50000},
     tire_stiffness         : {10000, 50000},
     inertial_force         : {<<0, 0, 0>>, <<3000, 20000, 0>>},
     tire_forward_direction : {<<1000, 0, 0>>, <<0, 1000, 0>>},
     tire_up_direction      : {<<0, 0, 1000>>}]

ForceInit == fin_ \in AxleInputs /\ fout = NoForce

CallGetReactionForce ==
    /\ ~fout.done
    /\ LET r == get_reaction_force_on_axle(fin_)
       IN fout' = [done |-> TRUE, slip |-> r.slip, d |-> r.d,
                   reaction_force |-> r.reaction_force]
    /\ UNCHANGED <<fin_, gin, gout, iq, iout>>
    /\ UNCHANGED carVars

InitForce == CarIdle /\ IdleGrip /\ IdleInterp /\ ForceInit

NextForce == CallGetReactionForce

SpecForce == InitForce /\ [][NextForce]_vars

-----------------------------------------------------------------------------
(* Claims about the tire, the curve and the axle *)

\* the inputs the data model allows, the wear aside
ValidTire ==
    /\ gin.tire_material_coeff > 0
    /\ gin.tread_amount \in 0..Scale
    /\ gin.tire_hardness_factor \in 0..Scale
    /\ gin.road_condition \in 0..Scale
    /\ gin.tire_pressure > 0
    /\ gin.tire_width > 0
    /\ gin.road_type \in {"asphalt", "concrete", "dirt", "gravel", "grass", "ice"}

\* C4: the grip computation called with a road surface kind outside asphalt,
\* concrete, dirt, gravel, grass, ice fails with an error; it returns no grip
\* value for it.
C4_UnknownSurfaceFails ==
    (gout.done /\ gin.road_type \notin {"asphalt", "concrete", "dirt", "gravel", "grass", "ice"})
        => gout.status = "error"

\* C5: for valid inputs (wear in [0,1]) and any temperature in degrees Celsius,
\* temperatures below 0 included, the grip returned is non-negative.
C5_GripNonNegative ==
    (gout.done /\ ValidTire /\ gin.tire_wear \in 0..Scale) => gout.grip >= 0

\* C6: all other nine inputs fixed and valid, for two wear values w1 <= w2 the
\* grip for w2 is less than or equal to the grip for w1, wear values outside
\* [0,1] included.
C6_GripMonotoneInWear ==
    (gout.done /\ gout.has_prev /\ ValidTire) =>
        /\ gout.prev_wear <= gin.tire_wear => gout.grip <= gout.prev_grip
        /\ gin.tire_wear <= gout.prev_wear => gout.prev_grip <= gout.grip

\* a tire worn from inside [0,1] to beyond 1 has lost grip
C6_Witness ==
    /\ gout.done /\ gout.has_prev /\ ValidTire
    /\ gout.prev_wear \in 1..(Scale - 1)
    /\ gin.tire_wear > Scale
    /\ gout.prev_grip > 0
    /\ gout.grip < gout.prev_grip

\* the line through two control points p and q, at x
LineAt(p, q, x) == p[2] + Quot((q[2] - p[2]) * (x - p[1]), q[1] - p[1])

\* C7: interpolate_curve returns a control point's y at that point's x, and
\* for x below the first or above the last control point the value on the
\* straight line continuing the nearest segment.
C7_InterpolateExtrapolates ==
    iout.done =>
        LET pts == iq.points
            n   == Len(pts)
        IN /\ \A i \in 1..n : iq.x = pts[i][1] => iout.y = pts[i][2]
           /\ iq.x < pts[1][1] => iout.y = LineAt(pts[1], pts[2], iq.x)
           /\ iq.x > pts[n][1] => iout.y = LineAt(pts[n - 1], pts[n], iq.x)

\* C9: in the slip regime, with positive engine torque, tire radius and
\* deformation absorption, the returned force is a non-negative multiple of
\* the forward direction, of magnitude at most (torque / radius) * absorption.
C9_SlipForceReducedForward ==
    (fout.done /\ fout.slip /\ fin_.engine_torque > 0 /\ fin_.tire_radius > 0
       /\ DeformationAbsorption(fin_) > 0) =>
        LET along == Dot(fout.reaction_force, fin_.tire_forward_direction)
        IN /\ Cross(fout.reaction_force, fin_.tire_forward_direction) = <<0, 0, 0>>
           /\ along >= 0
           /\ along <= Mul(Div(fin_.engine_torque, fin_.tire_radius),
                           DeformationAbsorption(fin_))


=============================================================================
